---- MODULE Spec2Model ----
(***************************************************************************)
(* Model of subdir: the web fetch-and-assemble engine (client-download),   *)
(* its download form, the provider adapters and the CLI.                   *)
(*                                                                         *)
(* A JavaScript string is a sequence of characters; a character is a TLA+  *)
(* string.  Only "/" has structure, so names such as "main" or "tree" are  *)
(* written as one character.  "" is <<>>.                                   *)
(***************************************************************************)
EXTENDS Integers, Sequences, FiniteSets, TLC

VARIABLES
    scenario,     \* name of the scenario: the URL given and the repository behind it
    runs,         \* web: one record per handleSubmit call (its closure and position)
    submits,      \* web: number of handleSubmit calls so far
    isLoading,    \* DownloadForm state
    progress,     \* DownloadForm state: last setProgress value, or NoProgress
    error,        \* DownloadForm state: DownloadError shown, or NoError
    abortRef,     \* DownloadForm abortRef.current: run whose controller it holds, 0 = null
    savedTokens,  \* DownloadForm state / localStorage: providers with a saved token
    lastEnded,    \* web: how the run that ended last ended (toast, archive saved)
    cli,          \* CLI: the one program.action invocation
    call          \* a function of the libraries applied to an input: input, fn, result

vars == <<scenario, runs, submits, isLoading, progress, error, abortRef,
          savedTokens, lastEnded, cli, call>>

webVars == <<runs, submits, isLoading, progress, error, abortRef, savedTokens, lastEnded>>

----------------------------------------------------------------------------
(* Bounds of the model *)

\* files in the flat directory (more than one batch of CONCURRENT_DOWNLOADS)
FlatCount == 7

\* handleSubmit calls (submit or retry) in one behaviour
MaxSubmits == 2

\* path segments of the URLs given to the URL functions
MaxSegments == 5

\* characters of the file paths given to the relativizers
MaxPathLen == 4

\* characters of the root paths given to the relativizers
MaxRootLen == 3

(* Program constants *)

CONCURRENT_DOWNLOADS == 6

MAX_FILE_SIZE == 100 * 1024 * 1024

LARGE_FILE_THRESHOLD == 1024 * 1024

\* per_page / pagelen of the listing requests
PER_PAGE == 100

----------------------------------------------------------------------------
(* Strings *)

StartsWith(s, p) == Len(p) <= Len(s) /\ SubSeq(s, 1, Len(p)) = p

\* s.slice(n)
Slice(s, n) == SubSeq(s, n + 1, Len(s))

Truthy(s) == s # <<>>

RECURSIVE Join(_, _)
\* segs.join(sep)
Join(segs, sep) ==
    IF segs = <<>> THEN <<>>
    ELSE IF Len(segs) = 1 THEN segs[1]
    ELSE segs[1] \o <<sep>> \o Join(Tail(segs), sep)

RECURSIVE SplitSlash(_)
\* s.split("/")
SplitSlash(s) ==
    IF \A i \in 1..Len(s) : s[i] # "/" THEN <<s>>
    ELSE LET k == CHOOSE i \in 1..Len(s) : s[i] = "/" /\ \A j \in 1..(i - 1) : s[j] # "/"
         IN  <<SubSeq(s, 1, k - 1)>> \o SplitSlash(Slice(s, k))

\* no filter: the empty strings of the split are kept
FilterNothing(parts) == parts

\* parts.filter(Boolean)
FilterBoolean(parts) == SelectSeq(parts, Truthy)

\* path.split("/").pop() || path
LastSegmentOr(path) ==
    LET parts == SplitSlash(path)
    IN  IF Truthy(parts[Len(parts)]) THEN parts[Len(parts)] ELSE path

Min(a, b) == IF a < b THEN a ELSE b

----------------------------------------------------------------------------
(* The repository on the server: directories with their listings in the    *)
(* order the API returns them.  kind is what the entry is in git; bytes    *)
(* stands for the file's content.                                          *)

Child(dir, n) == IF dir = <<>> THEN <<n>> ELSE dir \o <<"/", n>>

Item(dir, n, kind, size) ==
    [name |-> <<n>>, path |-> Child(dir, n), kind |-> kind, size |-> size,
     bytes |-> <<"bytes of">> \o Child(dir, n)]

\* a.txt, sub/a.txt, sub/nested/c.txt under the root s
TreeNested ==
    [root |-> <<"s">>,
     dirs |-> (<<"s">> :> <<Item(<<"s">>, "a", "file", 10), Item(<<"s">>, "d", "dir", 0)>>)
           @@ (<<"s", "/", "d">> :> <<Item(<<"s", "/", "d">>, "n", "dir", 0),
                                      Item(<<"s", "/", "d">>, "a", "file", LARGE_FILE_THRESHOLD + 1)>>)
           @@ (<<"s", "/", "d", "/", "n">> :> <<Item(<<"s", "/", "d", "/", "n">>, "c", "file", 10)>>)]

\* n files in one directory
TreeFlatOf(n) ==
    [root |-> <<"s">>,
     dirs |-> (<<"s">> :> [i \in 1..n |-> Item(<<"s">>, ToString(i), "file", 10)])]

TreeFlat == TreeFlatOf(FlatCount)

\* one more entry than a page of the listing API holds: PER_PAGE files and
\* then a directory z with one file
TreeWide ==
    [root |-> <<"s">>,
     dirs |-> (<<"s">> :> (TreeFlatOf(PER_PAGE).dirs[<<"s">>]
                            \o <<Item(<<"s">>, "z", "dir", 0)>>))
           @@ (<<"s", "/", "z">> :> <<Item(<<"s", "/", "z">>, "c", "file", 10)>>)]

\* the second file is larger than the cap
TreeOver ==
    [root |-> <<"s">>,
     dirs |-> (<<"s">> :> <<Item(<<"s">>, "a", "file", 10),
                            Item(<<"s">>, "b", "file", MAX_FILE_SIZE + 1),
                            Item(<<"s">>, "c", "file", 10)>>)]

\* a path with nothing under it
TreeEmpty == [root |-> <<"s">>, dirs |-> (<<"s">> :> <<>>)]

\* the root path designates a file
TreeSingle ==
    [root |-> <<"s", "/", "a">>,
     dirs |-> (<<"s">> :> <<Item(<<"s">>, "a", "file", 10)>>)]

\* a symlink and a submodule beside a file
TreeLinks ==
    [root |-> <<"s">>,
     dirs |-> (<<"s">> :> <<Item(<<"s">>, "l", "symlink", 10),
                            Item(<<"s">>, "m", "submodule", 0),
                            Item(<<"s">>, "a", "file", 10)>>)]

RECURSIVE FlattenItems(_, _)
\* the entries of every directory in `paths`, one after the other
FlattenItems(tree, paths) ==
    IF paths = {} THEN <<>>
    ELSE LET p == CHOOSE q \in paths : TRUE
         IN  tree.dirs[p] \o FlattenItems(tree, paths \ {p})

AllItems(tree) == FlattenItems(tree, DOMAIN tree.dirs)

ItemAt(tree, path) ==
    LET all == AllItems(tree)
    IN  all[CHOOSE i \in 1..Len(all) : all[i].path = path]

IsItem(tree, path) == \E i \in 1..Len(AllItems(tree)) : AllItems(tree)[i].path = path

\* the directories at or below the root path
DirsUnder(tree) ==
    {p \in DOMAIN tree.dirs : p = tree.root \/ StartsWith(p, tree.root \o <<"/">>)}

ItemSet(tree) == {AllItems(tree)[i] : i \in 1..Len(AllItems(tree))}

\* the paths of the entries of kind file reachable under the root path
FilesUnder(tree) ==
    {it.path : it \in {x \in ItemSet(tree) :
                          /\ x.kind = "file"
                          /\ \/ StartsWith(x.path, tree.root \o <<"/">>)
                             \/ x.path = tree.root}}

\* What the contents endpoint answers for a path: the listing of a
\* directory, or the one object of a file (GitHub).
RemoteContents(tree, path) ==
    IF path \in DOMAIN tree.dirs THEN tree.dirs[path]
    ELSE IF IsItem(tree, path) THEN <<ItemAt(tree, path)>>
    ELSE <<>>

\* Page `page` of a paginated listing (GitLab tree, Bitbucket src)
RemotePage(tree, path, page) ==
    LET all == RemoteContents(tree, path)
    IN  SubSeq(all, (page - 1) * PER_PAGE + 1, Min(page * PER_PAGE, Len(all)))


----------------------------------------------------------------------------
(* URLs.  A URL string is what `new URL` makes of it: whether it parses,  *)
(* its hostname and its pathname.                                          *)

MkUrl(host, parts) ==
    [valid |-> TRUE, host |-> host, pathname |-> <<"/">> \o Join(parts, "/")]

NotAUrl == [valid |-> FALSE, host |-> "", pathname |-> <<>>]

Max(a, b) == IF a > b THEN a ELSE b

\* Array.prototype.slice(from, to) with JavaScript's negative indices
JsSlice(a, from, to) ==
    LET n  == Len(a)
        lo == IF from < 0 THEN Max(n + from, 0) ELSE Min(from, n)
        hi == IF to < 0 THEN Max(n + to, 0) ELSE Min(to, n)
    IN  SubSeq(a, lo + 1, hi)

\* a[i] with a 0-based index; undefined outside the array
Undefined == <<"undefined">>

At(a, i) == IF i >= 0 /\ i < Len(a) THEN a[i + 1] ELSE Undefined

\* a.indexOf(x), 0-based, -1 when absent
IndexOf(a, x) ==
    IF \E i \in 1..Len(a) : a[i] = x
    THEN (CHOOSE i \in 1..Len(a) : a[i] = x /\ \A j \in 1..(i - 1) : a[j] # x) - 1
    ELSE -1

\* parsed.pathname.split("/").filter(Boolean)
PathParts(url) == FilterBoolean(SplitSlash(url.pathname))

Parsed(owner, repo, branch, path) ==
    [threw |-> "", owner |-> owner, repo |-> repo, branch |-> branch, path |-> path]

ParseThrew(what) ==
    [threw |-> what, owner |-> <<>>, repo |-> <<>>, branch |-> <<>>, path |-> <<>>]

(* web/lib/providers *)

GithubCanHandle(url) == url.valid /\ url.host = "github.com"

\* a canHandle that accepts every URL
GitlabCanHandleAny(url) == url.valid

GitlabCanHandle(url) == url.valid /\ url.host = "gitlab.com"

BitbucketCanHandle(url) == url.valid /\ url.host = "bitbucket.org"

GithubParseUrl(url) ==
    IF ~url.valid THEN ParseThrew("TypeError")
    ELSE LET parts == PathParts(url)
         IN  IF Len(parts) < 2 THEN ParseThrew("Error")
             ELSE IF Len(parts) > 3 /\ (parts[3] = <<"tree">> \/ parts[3] = <<"blob">>)
                  THEN Parsed(parts[1], parts[2], parts[4], Join(JsSlice(parts, 4, Len(parts)), "/"))
                  ELSE Parsed(parts[1], parts[2], <<"main">>, <<>>)

BitbucketParseUrl(url) ==
    IF ~url.valid THEN ParseThrew("TypeError")
    ELSE LET parts == PathParts(url)
         IN  IF Len(parts) < 2 THEN ParseThrew("Error")
             ELSE IF Len(parts) > 3 /\ parts[3] = <<"src">>
                  THEN Parsed(parts[1], parts[2], parts[4], Join(JsSlice(parts, 4, Len(parts)), "/"))
                  ELSE Parsed(parts[1], parts[2], <<"main">>, <<>>)

GitlabParseUrl(url) ==
    IF ~url.valid THEN ParseThrew("TypeError")
    ELSE LET parts     == PathParts(url)
             treeIndex == IndexOf(parts, <<"-">>)
             marker    == At(parts, treeIndex + 1)
         IN  IF Len(parts) < 2 THEN ParseThrew("Error")
             ELSE IF treeIndex = -1
                  THEN Parsed(Join(JsSlice(parts, 0, -1), "/"), parts[Len(parts)], <<"main">>, <<>>)
                  ELSE IF marker = <<"tree">> \/ marker = <<"blob">>
                       THEN Parsed(Join(JsSlice(parts, 0, treeIndex - 1), "/"),
                                   At(parts, treeIndex - 1),
                                   IF At(parts, treeIndex + 2) # Undefined
                                       THEN At(parts, treeIndex + 2) ELSE <<"main">>,
                                   Join(JsSlice(parts, treeIndex + 3, Len(parts)), "/"))
                       ELSE Parsed(Join(JsSlice(parts, 0, treeIndex - 1), "/"),
                                   At(parts, treeIndex - 1), <<"main">>, <<>>)

\* the providers array, in its order
providers == <<"github", "gitlab", "bitbucket">>

CanHandle(p, url) ==
    CASE p = "github"    -> GithubCanHandle(url)
      [] p = "gitlab"    -> GitlabCanHandle(url)
      [] p = "bitbucket" -> BitbucketCanHandle(url)

ParseUrl(p, url) ==
    CASE p = "github"    -> GithubParseUrl(url)
      [] p = "gitlab"    -> GitlabParseUrl(url)
      [] p = "bitbucket" -> BitbucketParseUrl(url)

\* detectProvider: the first provider that can handle the URL, "" for null
detectProvider(url) ==
    IF \E i \in 1..Len(providers) : CanHandle(providers[i], url)
    THEN providers[CHOOSE i \in 1..Len(providers) :
            CanHandle(providers[i], url) /\ \A j \in 1..(i - 1) : ~CanHandle(providers[j], url)]
    ELSE ""

(* download-form *)

detectProviderName(url) ==
    IF ~url.valid THEN ""
    ELSE IF url.host = "github.com" THEN "github"
    ELSE IF url.host = "gitlab.com" THEN "gitlab"
    ELSE IF url.host = "bitbucket.org" THEN "bitbucket"
    ELSE ""

isValidRepoUrl(url) == detectProviderName(url) # "" /\ Len(PathParts(url)) >= 2


----------------------------------------------------------------------------
(* Scenarios *)

\* the ref written in the URLs of the scenarios
UrlRef == <<"v1">>

\* the URL of the tree's root path at UrlRef, as each site writes it
TreeUrl(host, tree) ==
    LET root == SplitSlash(tree.root)
    IN  CASE host = "github.com" ->
                MkUrl(host, <<<<"o">>, <<"r">>, <<"tree">>, UrlRef>> \o root)
          [] host = "gitlab.com" ->
                MkUrl(host, <<<<"g">>, <<"o">>, <<"r">>, <<"-">>, <<"tree">>, UrlRef>> \o root)
          [] host = "bitbucket.org" ->
                MkUrl(host, <<<<"o">>, <<"r">>, <<"src">>, UrlRef>> \o root)

Scenario(host, tree, token) ==
    [url |-> TreeUrl(host, tree), tree |-> tree, token |-> token, remember |-> TRUE]

\* The scenarios, by name: the site of the URL and the repository behind it
ScenarioOf(name) ==
    CASE name = "github nested"    -> Scenario("github.com", TreeNested, <<"tok">>)
      [] name = "gitlab nested"    -> Scenario("gitlab.com", TreeNested, <<>>)
      [] name = "bitbucket nested" -> Scenario("bitbucket.org", TreeNested, <<>>)
      [] name = "github flat"      -> Scenario("github.com", TreeFlat, <<>>)
      [] name = "github over"      -> Scenario("github.com", TreeOver, <<>>)
      [] name = "gitlab over"      -> Scenario("gitlab.com", TreeOver, <<"tok">>)
      [] name = "gitlab empty"     -> Scenario("gitlab.com", TreeEmpty, <<>>)
      [] name = "github single"    -> Scenario("github.com", TreeSingle, <<>>)
      [] name = "github links"     -> Scenario("github.com", TreeLinks, <<>>)
      [] name = "github wide"      -> Scenario("github.com", TreeWide, <<>>)
      [] name = "gitlab wide"      -> Scenario("gitlab.com", TreeWide, <<>>)
      [] name = "bitbucket wide"   -> Scenario("bitbucket.org", TreeWide, <<>>)
      [] name = "github repo"      ->
            [Scenario("github.com", TreeNested, <<>>) EXCEPT
                !.url = MkUrl("github.com", <<<<"o">>, <<"r">>>>)]

\* the scenario of the behaviour
Sc == ScenarioOf(scenario)

----------------------------------------------------------------------------
(* web/lib/errors *)

NoError == [name |-> "", message |-> <<>>, code |-> "", suggestion |-> <<>>,
            retryable |-> FALSE]

\* new DownloadError(message, code, suggestion, retryable)
DownloadError(message, code, suggestion, retryable) ==
    [name |-> "DownloadError", message |-> message, code |-> code,
     suggestion |-> suggestion, retryable |-> retryable]

\* new DownloadError(message, code, suggestion): retryable = false
DownloadErrorDefault(message, code, suggestion) ==
    DownloadError(message, code, suggestion, FALSE)

createRateLimitError(provider) ==
    DownloadError(provider \o <<" API rate limit exceeded">>, "RATE_LIMITED",
                  <<"Add a ">> \o provider \o <<" token to increase the limit">>, TRUE)

createNotFoundError ==
    DownloadError(<<"Repository or path not found">>, "NOT_FOUND",
                  <<"Check URL - repo or path may not exist">>, FALSE)

\* an AuthRequired error that is not retryable
createAuthRequiredErrorFinal ==
    DownloadError(<<"Authentication required">>, "AUTH_REQUIRED",
                  <<"This repo is private. Add a token.">>, FALSE)

createAuthRequiredError ==
    DownloadError(<<"Authentication required">>, "AUTH_REQUIRED",
                  <<"This repo is private. Add a token.">>, TRUE)

createInvalidTokenError ==
    DownloadError(<<"Invalid or expired token">>, "INVALID_TOKEN",
                  <<"Token may be expired or lack permissions">>, TRUE)

createNetworkError ==
    DownloadError(<<"Network error">>, "NETWORK_ERROR", <<"Check your connection">>, TRUE)

createEmptyDirectoryError ==
    DownloadError(<<"Directory is empty">>, "EMPTY_DIRECTORY",
                  <<"Directory exists but contains no files">>, FALSE)

\* message `File too large: ${filename}`
createFileTooLargeError(filename) ==
    DownloadError(<<"File too large: ">> \o filename, "FILE_TOO_LARGE",
                  <<"File exceeds 100MB browser download limit">>, FALSE)

createCorsError ==
    DownloadError(<<"CORS blocked">>, "CORS_BLOCKED",
                  <<"Try a different browser or use a token">>, TRUE)

createInvalidUrlError ==
    DownloadError(<<"Invalid URL">>, "INVALID_URL",
                  <<"Enter a valid GitHub, GitLab, or Bitbucket URL">>, FALSE)

createProviderError(message) ==
    DownloadError(message, "PROVIDER_ERROR", <<"Try again or check the URL">>, TRUE)

\* what a rejected fetch() throws when its signal was aborted
AbortError == [NoError EXCEPT !.name = "AbortError"]

----------------------------------------------------------------------------
(* web adapters: requests and responses *)

\* How a request can end: the response is ok, fetch rejects (TypeError),
\* or the response carries a status that is not ok ("403rl" is a 403 with
\* X-RateLimit-Remaining: 0).
ListResponses == {"ok", "neterr", "404", "403rl", "403", "401", "429", "500"}

FileResponses == {"ok", "neterr", "404", "500"}

\* a catch block that converts every rejection
CatchFetchConverts(e) == createNetworkError

\* catch (e) { if (e instanceof Error && e.name === "AbortError") throw e;
\*             throw createNetworkError(); }
CatchFetch(e) == IF e = "AbortError" THEN AbortError ELSE createNetworkError

\* the name of the site in the messages of its adapter
ProviderTitle(p) ==
    CASE p = "github" -> "GitHub" [] p = "gitlab" -> "GitLab" [] p = "bitbucket" -> "Bitbucket"

\* fetchContents: what is thrown for a response that is not ok
FetchContentsThrows(p, resp) ==
    IF resp = "neterr" THEN CatchFetch("TypeError")
    ELSE IF resp = "404" THEN createNotFoundError
    ELSE IF resp = "401" THEN createAuthRequiredError
    ELSE IF p = "github" /\ resp = "403rl" THEN createRateLimitError(<<"GitHub">>)
    ELSE IF p = "github" /\ resp = "403" THEN createInvalidTokenError
    ELSE IF p = "bitbucket" /\ resp = "429" THEN createRateLimitError(<<"Bitbucket">>)
    ELSE createProviderError(<<ProviderTitle(p), " API error: ", resp>>)

\* downloadFile: what is thrown for a response that is not ok
DownloadFileThrows(p, resp) ==
    IF resp = "neterr" THEN CatchFetch("TypeError")
    ELSE createProviderError(<<"Failed to download file: ", resp>>)

\* the items.map(...) of each adapter: the FileEntry made of a listed item
GithubEntry(it) ==
    [name |-> it.name, path |-> it.path,
     type |-> IF it.kind = "dir" THEN "dir" ELSE "file", size |-> it.size]

\* GitLab lists directories as "tree"; the tree API returns no size
GitlabEntry(it) ==
    [name |-> it.name, path |-> it.path,
     type |-> IF it.kind = "dir" THEN "dir" ELSE "file", size |-> 0]

\* Bitbucket lists directories as "commit_directory" and gives no name
BitbucketEntry(it) ==
    [name |-> LastSegmentOr(it.path), path |-> it.path,
     type |-> IF it.kind = "dir" THEN "dir" ELSE "file", size |-> it.size]

\* fetchContents with an ok response: GitHub answers with the whole
\* listing (or the one object of a file); the GitLab and Bitbucket adapters
\* ask for one page of PER_PAGE entries and read no further page.
FetchContents(p, tree, path) ==
    LET items == IF p = "github" THEN RemoteContents(tree, path)
                 ELSE RemotePage(tree, path, 1)
    IN  [i \in 1..Len(items) |->
            CASE p = "github"    -> GithubEntry(items[i])
              [] p = "gitlab"    -> GitlabEntry(items[i])
              [] p = "bitbucket" -> BitbucketEntry(items[i])]

\* downloadFile: if (file.size > MAX_FILE_SIZE) throw createFileTooLargeError(file.name)
TooLarge(file) == file.size > MAX_FILE_SIZE

\* the bytes the server sends for a file
ServerBytes(tree, path) == ItemAt(tree, path).bytes


----------------------------------------------------------------------------
(* web/lib/client-download: one call of downloadDirectory                  *)

NoProgress == [phase |-> "null", current |-> 0, total |-> 0, currentFile |-> <<>>]

Progress(phase, current, total, currentFile) ==
    [phase |-> phase, current |-> current, total |-> total, currentFile |-> currentFile]

\* no onProgress call was made
Silent == [phase |-> "silent", current |-> 0, total |-> 0, currentFile |-> <<>>]

NoConfig == [owner |-> <<>>, repo |-> <<>>, branch |-> <<>>, path |-> <<>>, token |-> <<>>]

\* pc: idle, listing (awaiting provider.fetchContents), downloading (awaiting the
\* Promise.all of a batch), generating (awaiting zip.generateAsync), ended
IdleRun ==
    [pc        |-> "idle",
     provider  |-> "",
     config    |-> NoConfig,
     aborted   |-> FALSE,      \* config.signal.aborted
     stack     |-> <<>>,       \* collectFilesRecursively calls: entries and loop position
     pending   |-> <<>>,       \* config.path of the fetchContents call awaited
     files     |-> <<>>,       \* collectedFiles
     batch     |-> 0,          \* i of the batch loop
     inflight  |-> {},         \* files whose provider.downloadFile has not settled
     got       |-> {},         \* files of the batch whose content has arrived
     completed |-> 0,
     results   |-> <<>>,
     zip       |-> {},         \* entries of the JSZip object
     listed    |-> {},         \* paths provider.fetchContents was called for
     failed    |-> FALSE,      \* a request of the run was answered with a failure
     started   |-> {},         \* files provider.downloadFile was called for
     downloadLog |-> <<>>,     \* the downloading events so far, in order
     outOfOrder |-> FALSE,     \* a content arrived before that of an earlier file
     listCalls |-> <<>>,       \* the provider.fetchContents calls: their paths, in order
     fileCalls |-> <<>>,       \* the provider.downloadFile calls: their files, in order
     fetched   |-> {},         \* files a content request was sent for
     observer  |-> TRUE,       \* onProgress is a function
     emitted   |-> <<>>,       \* phases of the progress events so far, in order
     fetchLog  |-> <<>>,       \* the fetching events so far, in order
     totals    |-> {},         \* totals carried by the downloading events so far
     remember  |-> FALSE,      \* rememberToken, token and provider of the closure
     token     |-> <<>>,
     formProvider |-> "",
     tokens    |-> <<>>]       \* savedTokens of the closure

EndedRun == [IdleRun EXCEPT !.pc = "ended"]

\* a relativizer that keeps only the last segment of the file's path
RelativePathBaseName(configPath, filePath) == LastSegmentOr(filePath)

\* a relativizer that always cuts the length of the root and a separator
RelativePathSliced(configPath, filePath) == Slice(filePath, Len(configPath) + 1)

\* the relative path of a file (collectFiles, lines 69-78)
RelativePath(configPath, filePath) ==
    LET rel == IF Truthy(configPath)
               THEN IF StartsWith(filePath, configPath \o <<"/">>)
                    THEN Slice(filePath, Len(configPath) + 1)
                    ELSE IF StartsWith(filePath, configPath)
                         THEN Slice(filePath, Len(configPath))
                         ELSE filePath
               ELSE filePath
    IN  IF StartsWith(rel, <<"/">>) THEN Slice(rel, 1) ELSE rel

\* onProgress({ phase: "fetching", current: collectedFiles.length,
\*              total: collectedFiles.length })
FetchingProgress(n) == Progress("fetching", n, n, <<>>)

RECURSIVE Walk(_, _, _)
\* collectFilesRecursively from the point where a listing has arrived to the
\* next fetchContents call (pending) or to the return of the outermost call:
\* the loop of the innermost call runs to its next entry of type "dir"
\* (files are pushed, other entries passed over, progress reported for
\* each); at the end of the loop the call returns and its caller reports
\* progress for the directory and goes on.  events are the onProgress calls.
Walk(stack, files, events) ==
    IF stack = <<>>
    THEN [stack |-> <<>>, files |-> files, done |-> TRUE, pending |-> <<>>, events |-> events]
    ELSE LET top   == stack[Len(stack)]
             rest  == SubSeq(stack, 1, Len(stack) - 1)
             n     == Len(top.entries)
             dirs  == {j \in top.i..n : top.entries[j].type = "dir"}
             stop  == IF dirs = {} THEN n + 1 ELSE CHOOSE j \in dirs : \A l \in dirs : j <= l
             IsFile(e) == e.type = "file"
             found == files \o SelectSeq(SubSeq(top.entries, top.i, stop - 1), IsFile)
             seen  == events \o
                      [j \in 1..(stop - top.i) |->
                         FetchingProgress(Len(files) +
                            Len(SelectSeq(SubSeq(top.entries, top.i, top.i + j - 1), IsFile)))]
         IN  IF stop <= n
             THEN [stack |-> Append(rest, [top EXCEPT !.i = stop]), files |-> found,
                   done |-> FALSE, pending |-> top.entries[stop].path, events |-> seen]
             ELSE IF rest = <<>>
                  THEN Walk(<<>>, found, seen)
                  ELSE Walk([rest EXCEPT ![Len(rest)].i = rest[Len(rest)].i + 1],
                            found, Append(seen, FetchingProgress(Len(found))))

\* a batch that is not sliced: every file from index i on
BatchOfTheRest(files, i) == (i + 1)..Len(files)

\* onProgress(prog): the phase of the event follows those emitted so far
\* (a phase is written once for a row of events of that phase)
Emit(run, prog) ==
    IF prog = Silent THEN run
    ELSE [run EXCEPT
            !.emitted = IF @ # <<>> /\ @[Len(@)] = prog.phase THEN @ ELSE Append(@, prog.phase),
            !.totals = IF prog.phase = "downloading" THEN @ \cup {prog.total} ELSE @]

\* a downloading event whose total is the size of the batch
BatchProgressOfBatch(run, file) ==
    Progress("downloading", run.completed, Min(Len(run.files), CONCURRENT_DOWNLOADS),
             file.name)

\* onProgress({ phase: "downloading", current: completed, total: files.length,
\*              currentFile: file.name })
BatchProgress(run, file) ==
    Progress("downloading", run.completed, Len(run.files), file.name)

\* a zipping event that carries the phase "fetching"
ZipProgressFetching(results) ==
    Progress("fetching", Len(results), Len(results), <<>>)

\* the last onProgress call of createAndDownloadZip: { phase: "zipping",
\* current: i + 1, total: files.length, currentFile: file.relativePath }
\* (the call before the loop when there is no file)
ZipProgress(results) ==
    LET n == Len(results)
    IN  Progress("zipping", n, n, IF n = 0 THEN <<>> ELSE results[n].relativePath)

\* a batch of one file more than CONCURRENT_DOWNLOADS
BatchOfOneMore(files, i) == (i + 1)..Min(i + CONCURRENT_DOWNLOADS + 1, Len(files))

\* the files of the batch that starts at index i (0-based), as positions in files
BatchOf(files, i) == (i + 1)..Min(i + CONCURRENT_DOWNLOADS, Len(files))

\* The result of a step of a run: its new record, what it threw (NoError if
\* it is suspended again) and the last progress event it emitted.
Step(run, thrown, prog) == [run |-> run, thrown |-> thrown, prog |-> prog]

\* downloadBatch(files.slice(i, i + CONCURRENT_DOWNLOADS)): every callback of
\* batch.map runs to its first await: it reports progress and calls
\* provider.downloadFile, which throws for a file over the cap and sends
\* the request otherwise.
StartBatch(run, i) ==
    LET batch == BatchOf(run.files, i)
        over  == {k \in batch : TooLarge(run.files[k])}
        sent  == batch \ over
        last  == run.files[i + Cardinality(batch)]
        r2    == [run EXCEPT !.pc = "downloading", !.batch = i, !.inflight = sent,
                             !.got = {}, !.started = run.started \cup batch,
                             !.fileCalls = run.fileCalls \o
                                           [j \in 1..Cardinality(batch) |-> i + j],
                             !.downloadLog = run.downloadLog \o
                                [j \in 1..Cardinality(batch) |->
                                    BatchProgress(run, run.files[i + j])],
                             !.fetched = run.fetched \cup sent]
        first == CHOOSE k \in over : \A j \in over : k <= j
        prog  == BatchProgress(run, last)
    IN  Step(Emit(r2, prog),
             IF over = {} THEN NoError ELSE createFileTooLargeError(run.files[first].name),
             prog)

\* zip.file(relativePath, content) for every result in order: a later entry
\* of the same name replaces an earlier one
ZipOf(results) ==
    {[relativePath |-> results[i].relativePath, content |-> results[i].content] :
        i \in {j \in 1..Len(results) :
                 \A l \in (j + 1)..Len(results) :
                    results[l].relativePath # results[j].relativePath}}

\* createAndDownloadZip up to `await zip.generateAsync`
StartZip(run) ==
    LET prog == ZipProgress(run.results)
    IN  Step(Emit([run EXCEPT !.pc = "generating", !.zip = ZipOf(run.results),
                              !.inflight = {}, !.got = {}], prog),
             NoError,
             prog)

\* collectFiles after collectFilesRecursively has returned
AfterWalk(run) ==
    IF Len(run.files) = 0
    THEN Step(run, createEmptyDirectoryError, Silent)
    ELSE StartBatch(run, 0)

\* provider.fetchContents resolved with `entries`
ListingArrived(run, entries) ==
    LET w  == Walk(Append(run.stack, [entries |-> entries, i |-> 1]), run.files, <<>>)
        ev == IF w.events # <<>> THEN w.events[Len(w.events)] ELSE Silent
        r2 == Emit([run EXCEPT !.stack = w.stack, !.files = w.files, !.pending = w.pending,
                               !.fetchLog = run.fetchLog \o w.events],
                   ev)
    IN  IF w.done
        THEN LET a == AfterWalk(r2)
             IN  Step(a.run, a.thrown, IF a.prog = Silent THEN ev ELSE a.prog)
        ELSE Step([r2 EXCEPT !.listed = run.listed \cup {w.pending},
                             !.listCalls = Append(run.listCalls, w.pending)],
                  NoError, ev)

\* a counter written from the value it had when the batch started
CountCompletedStale(run) == run.batch + 1

\* completed++
CountCompleted(run) == run.completed + 1

\* the result of the callback of files[k]
ResultOf(run, got, k) ==
    [relativePath |-> RelativePath(run.config.path, run.files[k].path),
     content |-> (CHOOSE g \in got : g.k = k).content]

\* batch results in which the callback that finished last (k) comes last
BatchResultsLastArrivedLast(run, got, k) ==
    LET batch == BatchOf(run.files, run.batch)
        order == [j \in 1..Cardinality(batch) |-> run.batch + j]
        IsNotK(i) == i # k
        moved == Append(SelectSeq(order, IsNotK), k)
    IN  [j \in 1..Len(moved) |-> ResultOf(run, got, moved[j])]

\* what Promise.all(batch.map(...)) resolves with when the callback of
\* files[k] was the last to finish: the results in the order of the batch
BatchResults(run, got, k) ==
    LET batch == BatchOf(run.files, run.batch)
    IN  [j \in 1..Cardinality(batch) |-> ResultOf(run, got, run.batch + j)]

\* the content of files[k] arrived: the callback counts it and returns its
\* result; when it was the last of the batch, Promise.all resolves in the
\* order of the batch and the loop goes on
ContentArrived(run, k, bytes) ==
    LET got2 == run.got \cup {[k |-> k, content |-> bytes]}
        left == run.inflight \ {k}
        r2   == [run EXCEPT !.got = got2, !.inflight = left, !.completed = CountCompleted(run),
                            !.outOfOrder = run.outOfOrder \/ \E j \in left : j < k]
        r3   == [r2 EXCEPT !.results = run.results \o BatchResults(run, got2, k)]
    IN  IF left # {}
        THEN Step(r2, NoError, Silent)
        ELSE IF run.batch + CONCURRENT_DOWNLOADS < Len(run.files)
             THEN StartBatch(r3, run.batch + CONCURRENT_DOWNLOADS)
             ELSE StartZip(r3)


----------------------------------------------------------------------------
(* components/download-form: DownloadForm                                   *)

RunIds == 1..MaxSubmits

NoTokens == [p \in {"github", "gitlab", "bitbucket"} |-> <<>>]

\* How a run ended: what handleSubmit's try, catch and finally did with it.
NoneEnded ==
    [run |-> 0, outcome |-> "none", thrown |-> NoError, toast |-> "", errorSet |-> NoError,
     phase |-> "", cause |-> "", aborted |-> FALSE, failed |-> FALSE, listed |-> {},
     files |-> <<>>, observer |-> TRUE, emitted |-> <<>>, totals |-> {},
     listCalls |-> <<>>, fileCalls |-> <<>>, batch |-> 0,
     started |-> {}, fetched |-> {}, unsettled |-> 0, zip |-> {}, saved |-> FALSE,
     tokenSaved |-> FALSE]

\* catch (err): what the form does with what the run threw
CatchToast(thrown) ==
    IF thrown.name = "AbortError" THEN "info: Download cancelled" ELSE "error"

CatchSetsError(thrown) == IF thrown.name = "DownloadError" THEN thrown ELSE NoError

\* The run r threw `thrown` (cause: the response or signal behind it): the
\* catch and finally blocks of handleSubmit.
Throws(r, run, thrown, cause) ==
    /\ runs' = [runs EXCEPT ![r] = EndedRun]
    /\ error' = IF CatchSetsError(thrown) # NoError THEN CatchSetsError(thrown) ELSE error
    /\ isLoading' = FALSE
    /\ progress' = NoProgress
    /\ abortRef' = 0
    /\ lastEnded' =
         [NoneEnded EXCEPT !.run = r,
            !.outcome = IF thrown.name = "AbortError" THEN "cancelled" ELSE "error",
            !.thrown = thrown, !.toast = CatchToast(thrown),
            !.errorSet = CatchSetsError(thrown), !.phase = run.pc, !.cause = cause,
            !.aborted = run.aborted, !.failed = run.failed \/ cause \notin {"", "abort"},
            !.listed = run.listed, !.files = run.files,
            !.observer = run.observer, !.emitted = run.emitted, !.totals = run.totals,
            !.listCalls = run.listCalls, !.fileCalls = run.fileCalls, !.batch = run.batch,
            !.started = run.started, !.fetched = run.fetched,
            !.unsettled = IF run.pc = "listing" THEN 1 ELSE Cardinality(run.inflight)]
    /\ UNCHANGED <<scenario, submits, savedTokens, cli, call>>

\* The step st of run r is taken: the run is suspended again, or it threw.
Commit(r, st, cause) ==
    IF st.thrown # NoError
    THEN Throws(r, st.run, st.thrown, cause)
    ELSE /\ runs' = [runs EXCEPT ![r] = [st.run EXCEPT !.failed = st.run.failed \/ cause # ""]]
         /\ progress' = IF st.prog = Silent THEN progress ELSE st.prog
         /\ UNCHANGED <<scenario, submits, isLoading, error, abortRef, savedTokens,
                        lastEnded, cli, call>>

\* onProgress(...) where onProgress is undefined
NotAFunction ==
    [NoError EXCEPT !.name = "TypeError", !.message = <<"onProgress is not a function">>]

\* handleSubmit up to the first await, downloadDirectory being given
\* onProgress when `observer`: collectFiles calls onProgress, then
\* fetchContents for the root
StartRunWith(r, observer) ==
    LET url    == Sc.url
        p      == detectProvider(url)
        parsed == ParseUrl(p, url)
    IN  /\ isValidRepoUrl(url)
        /\ p # ""
        /\ parsed.threw = ""
        /\ submits' = r
        /\ error' = NoError
        /\ IF observer
           THEN /\ runs' = [runs EXCEPT ![r] =
                      [IdleRun EXCEPT !.pc = "listing", !.provider = p,
                         !.config = [owner |-> parsed.owner, repo |-> parsed.repo,
                                     branch |-> parsed.branch, path |-> parsed.path,
                                     token |-> Sc.token],
                         !.pending = parsed.path, !.listed = {parsed.path},
                         !.emitted = <<"fetching">>,
                         !.fetchLog = <<Progress("fetching", 0, 0, <<>>)>>,
                         !.listCalls = <<parsed.path>>,
                         !.remember = Sc.remember, !.token = Sc.token,
                         !.formProvider = detectProviderName(url), !.tokens = savedTokens]]
                /\ isLoading' = TRUE
                /\ progress' = Progress("fetching", 0, 0, <<>>)
                /\ abortRef' = r
                /\ UNCHANGED lastEnded
           ELSE \* collectFiles throws before any request; catch and finally
                /\ runs' = [runs EXCEPT ![r] = EndedRun]
                /\ isLoading' = FALSE
                /\ progress' = NoProgress
                /\ abortRef' = 0
                /\ lastEnded' =
                     [NoneEnded EXCEPT !.run = r, !.outcome = "error",
                        !.thrown = NotAFunction, !.toast = CatchToast(NotAFunction),
                        !.errorSet = CatchSetsError(NotAFunction), !.phase = "idle",
                        !.cause = "observer", !.observer = FALSE]
        /\ UNCHANGED <<scenario, savedTokens, cli, call>>

\* handleSubmit: downloadDirectory(provider, config, setProgress)
StartRun(r) == StartRunWith(r, TRUE)

\* handleSubmit's call of downloadDirectory made with or without the
\* observer, from the pristine form
Invoke(observer) ==
    /\ submits = 0
    /\ ~isLoading
    /\ StartRunWith(1, observer)

\* the submit button (disabled while isLoading)
Submit ==
    /\ submits < MaxSubmits
    /\ ~isLoading
    /\ StartRun(submits + 1)

\* the Retry button, shown with a retryable error: handleRetry
Retry ==
    /\ submits < MaxSubmits
    /\ error # NoError /\ error.retryable
    /\ StartRun(submits + 1)

\* a listing request that is not given the signal
FetchContentsNoSignal(signal) == "undefined"

\* fetchContents: fetch(url, { headers: getHeaders(token), signal }) - the
\* signal the listing request is given
FetchContentsSignal(signal) == signal

\* a content request that is not given the signal
DownloadFileNoSignal(signal) == "undefined"

\* downloadFile: fetch(..., { headers, signal }) - the signal the content
\* request is given
DownloadFileSignal(signal) == signal

\* a request of the run is pending, and it rejects when the run's signal is aborted
FetchAborts(run) ==
    \/ run.pc = "listing" /\ FetchContentsSignal("signal") = "signal"
    \/ run.pc = "downloading" /\ DownloadFileSignal("signal") = "signal"

\* the Cancel button (shown while isLoading): handleCancel, and the
\* rejection of the pending requests of the aborted run
Cancel ==
    /\ isLoading
    /\ IF abortRef # 0 /\ FetchAborts(runs[abortRef])
       THEN Throws(abortRef, [runs[abortRef] EXCEPT !.aborted = TRUE],
                   CatchFetch("AbortError"), "abort")
       ELSE /\ runs' = IF abortRef = 0 THEN runs
                       ELSE [runs EXCEPT ![abortRef].aborted = TRUE]
            /\ abortRef' = 0
            /\ isLoading' = FALSE
            /\ progress' = NoProgress
            /\ UNCHANGED <<scenario, submits, error, savedTokens, lastEnded, cli, call>>

\* a traversal that calls provider.fetchContents again when it rejected
ListingRetried(run, thrown) ==
    Step([run EXCEPT !.listCalls = Append(run.listCalls, run.pending)], NoError, Silent)

\* provider.fetchContents rejected: nothing catches it in
\* collectFilesRecursively, collectFiles or downloadDirectory
ListingFailed(run, thrown) == Step(run, thrown, Silent)

\* provider.downloadFile rejected: Promise.all rejects, and nothing catches it
\* in downloadBatch, collectFiles or downloadDirectory
ContentFailed(run, thrown) == Step(run, thrown, Silent)

\* the listing awaited by run r is answered
ListSettle(r, resp) ==
    /\ runs[r].pc = "listing"
    /\ Commit(r,
              IF resp = "ok"
              THEN ListingArrived(runs[r],
                      FetchContents(runs[r].provider, Sc.tree, runs[r].pending))
              ELSE ListingFailed(runs[r], FetchContentsThrows(runs[r].provider, resp)),
              IF resp = "ok" THEN "" ELSE resp)

\* the content request of files[k] of run r is answered
DownloadSettle(r, k, resp) ==
    /\ runs[r].pc = "downloading"
    /\ k \in runs[r].inflight
    /\ Commit(r,
              IF resp = "ok"
              THEN ContentArrived(runs[r], k, ServerBytes(Sc.tree, runs[r].files[k].path))
              ELSE ContentFailed(runs[r], DownloadFileThrows(runs[r].provider, resp)),
              IF resp = "ok" THEN "" ELSE resp)

\* zip.generateAsync resolved: the archive is saved (a.click()),
\* downloadDirectory returns, the token is saved and the finally block runs
GenerateDone(r) ==
    LET run == runs[r]
        save == run.remember /\ Truthy(run.token) /\ run.formProvider # ""
    IN  /\ run.pc = "generating"
        /\ runs' = [runs EXCEPT ![r] = EndedRun]
        /\ savedTokens' = IF save THEN [run.tokens EXCEPT ![run.formProvider] = run.token]
                          ELSE savedTokens
        /\ isLoading' = FALSE
        /\ progress' = NoProgress
        /\ abortRef' = 0
        /\ lastEnded' =
             [NoneEnded EXCEPT !.run = r, !.outcome = "success",
                !.toast = "success: Download started!", !.phase = run.pc,
                !.aborted = run.aborted, !.failed = run.failed, !.listed = run.listed,
                !.files = run.files, !.started = run.started, !.fetched = run.fetched,
                !.observer = run.observer, !.emitted = run.emitted, !.totals = run.totals,
                !.listCalls = run.listCalls, !.fileCalls = run.fileCalls,
                !.zip = run.zip,
                !.saved = TRUE, !.tokenSaved = save]
        /\ UNCHANGED <<scenario, submits, error, cli, call>>


----------------------------------------------------------------------------
(* cli: providers *)

\* s.replace(pat, ""): the first occurrence of pat is removed
ReplaceFirst(s, pat) ==
    LET hits == {i \in 1..(Len(s) - Len(pat) + 1) : SubSeq(s, i, i + Len(pat) - 1) = pat}
        k    == CHOOSE i \in hits : \A j \in hits : i <= j
    IN  IF pat = <<>> \/ hits = {} THEN s
        ELSE SubSeq(s, 1, k - 1) \o SubSeq(s, k + Len(pat), Len(s))

\* s.replace(/^\//, "")
StripLeadingSlash(s) == IF StartsWith(s, <<"/">>) THEN Slice(s, 1) ELSE s

\* s.replace(/\/$/, "")
StripTrailingSlash(s) ==
    IF Len(s) > 0 /\ s[Len(s)] = "/" THEN SubSeq(s, 1, Len(s) - 1) ELSE s

\* /^https?:\/\/github\.com\//.test(url)
CliGithubCanHandle(url) == url.valid /\ url.host = "github.com"

\* /^https?:\/\/gitlab\.com\//.test(url)
CliGitlabCanHandle(url) == url.valid /\ url.host = "gitlab.com"

\* /^https?:\/\/github\.com\/([^/]+)\/([^/]+)\/(?:tree|blob)\/([^/]+)\/(.+)$/
CliGithubParseUrl(url) ==
    LET parts == SplitSlash(url.pathname)
        rest  == Join(JsSlice(parts, 5, Len(parts)), "/")
    IN  IF /\ CliGithubCanHandle(url)
           /\ Len(parts) >= 6
           /\ Truthy(parts[2]) /\ Truthy(parts[3])
           /\ parts[4] \in {<<"tree">>, <<"blob">>}
           /\ Truthy(parts[5])
           /\ Truthy(rest)
        THEN Parsed(parts[2], parts[3], parts[5], StripTrailingSlash(rest))
        ELSE ParseThrew("Error")

\* /^https?:\/\/gitlab\.com\/(.+?)\/-\/(?:tree|blob)\/([^/]+)(?:\/(.*))?$/
CliGitlabParseUrl(url) ==
    LET parts == SplitSlash(url.pathname)
        marks == {k \in 3..(Len(parts) - 2) :
                    /\ parts[k] = <<"-">>
                    /\ parts[k + 1] \in {<<"tree">>, <<"blob">>}
                    /\ Truthy(parts[k + 2])
                    /\ Truthy(Join(SubSeq(parts, 2, k - 1), "/"))}
        k     == CHOOSE m \in marks : \A j \in marks : m <= j
        proj  == SubSeq(parts, 2, k - 1)
    IN  IF CliGitlabCanHandle(url) /\ marks # {}
        THEN Parsed(Join(SubSeq(proj, 1, Len(proj) - 1), "/"), proj[Len(proj)], parts[k + 2],
                    StripTrailingSlash(Join(JsSlice(parts, k + 2, Len(parts)), "/")))
        ELSE ParseThrew("Error")

\* detectProvider of the CLI: providers.find(canHandle) over [github, gitlab]; "" when it throws
CliDetectProvider(url) ==
    IF CliGithubCanHandle(url) THEN "github"
    ELSE IF CliGitlabCanHandle(url) THEN "gitlab"
    ELSE ""

CliParseUrl(p, url) == IF p = "github" THEN CliGithubParseUrl(url) ELSE CliGitlabParseUrl(url)

NoUrl == [ref |-> <<>>, path |-> <<>>]

\* github.fetchContents: entries that are neither file nor dir are filtered
\* out; download_url names the file at the ref the listing was asked for
CliGithubEntries(items, ref) ==
    LET Keep(it) == it.kind \in {"file", "dir"}
        kept == SelectSeq(items, Keep)
    IN  [i \in 1..Len(kept) |->
            [name |-> kept[i].name, path |-> kept[i].path, type |-> kept[i].kind,
             size |-> kept[i].size,
             downloadUrl |-> IF kept[i].kind = "file"
                             THEN [ref |-> ref, path |-> kept[i].path] ELSE NoUrl,
             sha |-> <<"sha of">> \o kept[i].path]]

\* gitlab.fetchContents: allItems.map(...)
CliGitlabEntries(items) ==
    [i \in 1..Len(items) |->
        [name |-> items[i].name, path |-> items[i].path,
         type |-> IF items[i].kind = "dir" THEN "dir" ELSE "file",
         size |-> 0, downloadUrl |-> NoUrl, sha |-> <<>>]]

\* downloadGitHubFile: the blob API (by sha) or the download URL
CliGithubUsesBlob(file) == file.size > LARGE_FILE_THRESHOLD \/ file.downloadUrl = NoUrl

\* the ref a content request names ({} for a blob request, which names a sha)
CliContentRefs(p, file, config) ==
    IF p = "gitlab" THEN {config.branch}
    ELSE IF CliGithubUsesBlob(file) THEN {} ELSE {file.downloadUrl.ref}

----------------------------------------------------------------------------
(* cli: download.ts and index.ts *)

\* options.branch when the option is not given
NoBranch == <<"undefined">>

IdleCli ==
    [pc      |-> "idle",     \* idle, listing, downloading, done (exit 0), failed (exit 1)
     provider |-> "",
     branchOption |-> NoBranch,
     config  |-> NoConfig,
     stack   |-> <<>>,       \* collectFiles calls: contents, loop position, files
     pending |-> <<>>,       \* path of the fetchContents call awaited
     page    |-> 0,          \* gitlab: page awaited
     allItems |-> <<>>,      \* gitlab: items of the pages read
     files   |-> <<>>,       \* downloadDirectory: files
     current |-> 0,
     written |-> {},         \* files written below outputDir
     refs    |-> {},         \* refs named by the requests sent
     listed  |-> {},         \* paths fetchContents was called for
     listCalls |-> <<>>,     \* the provider.fetchContents calls: their paths, in order
     fileCalls |-> <<>>,     \* the downloadFileContent calls: their files, in order
     observer |-> TRUE,      \* onProgress is a function
     totals  |-> {},         \* totals given to onProgress so far
     noFiles |-> FALSE,      \* "No files found in directory." was printed
     message |-> ""]         \* what the catch block printed

\* an action that leaves parsed.branch as the URL gave it
CliBranchOfUrl(parsed, option) == parsed.branch

\* if (options.branch) parsed.branch = options.branch
CliBranch(parsed, option) ==
    IF option # NoBranch /\ Truthy(option) THEN option ELSE parsed.branch

\* item.path.replace(basePath, "").replace(/^\//, "")
CliRelativePath(basePath, path) == StripLeadingSlash(ReplaceFirst(path, basePath))

RECURSIVE CliWalk(_, _)
\* collectFiles from the arrival of a listing to the next fetchContents call
\* or to the return of the outermost call
CliWalk(stack, basePath) ==
    LET top   == stack[Len(stack)]
        rest  == SubSeq(stack, 1, Len(stack) - 1)
        n     == Len(top.contents)
        dirs  == {j \in top.i..n : top.contents[j].type = "dir"}
        stop  == IF dirs = {} THEN n + 1 ELSE CHOOSE j \in dirs : \A l \in dirs : j <= l
        IsFile(e) == e.type = "file"
        new   == SelectSeq(SubSeq(top.contents, top.i, stop - 1), IsFile)
        found == top.files \o
                 [j \in 1..Len(new) |->
                    [file |-> new[j], relativePath |-> CliRelativePath(basePath, new[j].path)]]
    IN  IF stop <= n
        THEN [stack |-> Append(rest, [top EXCEPT !.i = stop, !.files = found]),
              done |-> FALSE, pending |-> top.contents[stop].path, files |-> <<>>]
        ELSE IF rest = <<>>
             THEN [stack |-> <<>>, done |-> TRUE, pending |-> <<>>, files |-> found]
             ELSE LET up == rest[Len(rest)]
                  IN  CliWalk([rest EXCEPT ![Len(rest)] =
                                  [up EXCEPT !.i = up.i + 1, !.files = up.files \o found]],
                              basePath)

\* the catch block of the action: the error is printed and the process exits with 1
CliFails(c, message) == cli' = [c EXCEPT !.pc = "failed", !.message = message]

\* onProgress?.(current, total, relativePath): the totals the observer has seen
CliOnProgress(c, total) == IF c.observer THEN c.totals \cup {total} ELSE c.totals

\* the request for files[current] is sent (after onProgress and mkdir)
CliNextFile(c) ==
    LET k == c.current + 1
        f == c.files[k].file
    IN  IF c.provider = "github" /\ CliGithubUsesBlob(f) /\ ~Truthy(f.sha)
        THEN CliFails([c EXCEPT !.current = k, !.fileCalls = Append(c.fileCalls, k)],
                      "Cannot download file without sha")
        ELSE cli' = [c EXCEPT !.pc = "downloading", !.current = k,
                        !.fileCalls = Append(c.fileCalls, k),
                        !.totals = CliOnProgress(c, Len(c.files)),
                        !.refs = c.refs \cup CliContentRefs(c.provider, f, c.config)]

\* downloadDirectory after collectFiles has returned `files`
CliAfterCollect(c, files) ==
    IF Len(files) = 0
    THEN cli' = [c EXCEPT !.pc = "done", !.noFiles = TRUE, !.files = files]
    ELSE CliNextFile([c EXCEPT !.files = files])

\* fetchContents resolved with `entries`
CliListingArrived(c, entries) ==
    LET w == CliWalk(Append(c.stack, [contents |-> entries, i |-> 1, files |-> <<>>]),
                     c.config.path)
    IN  IF w.done
        THEN CliAfterCollect([c EXCEPT !.stack = <<>>, !.pending = <<>>], w.files)
        ELSE cli' = [c EXCEPT !.stack = w.stack, !.pending = w.pending, !.page = 1,
                        !.allItems = <<>>, !.refs = c.refs \cup {c.config.branch},
                        !.listed = c.listed \cup {w.pending},
                        !.listCalls = Append(c.listCalls, w.pending)]

\* program.action up to the first request; downloadDirectory is given
\* onProgress when `observer`
CliStartWith(option, observer) ==
    LET url    == Sc.url
        p      == CliDetectProvider(url)
        parsed == CliParseUrl(p, url)
        branch == CliBranch(parsed, option)
        c      == [IdleCli EXCEPT !.provider = p, !.branchOption = option,
                                  !.observer = observer]
    IN  /\ cli.pc = "idle"
        /\ IF p = "" THEN CliFails(c, "Unsupported URL")
           ELSE IF parsed.threw # "" THEN CliFails(c, "Invalid URL")
           ELSE cli' = [c EXCEPT !.pc = "listing",
                           !.config = [owner |-> parsed.owner, repo |-> parsed.repo,
                                       branch |-> branch, path |-> parsed.path,
                                       token |-> <<>>],
                           !.pending = parsed.path, !.page = 1,
                           !.refs = {branch}, !.listed = {parsed.path},
                           !.listCalls = <<parsed.path>>]
        /\ UNCHANGED <<scenario, webVars, call>>

\* program.action: the progress callback is always given
CliStart(option) == CliStartWith(option, TRUE)

\* downloadDirectory(provider, config, outputDir, onProgress?) called with or
\* without the observer, on the URL of the scenario
CliInvoke(observer) == CliStartWith(NoBranch, observer)

\* the listing request awaited is answered
CliListSettle(resp) ==
    /\ cli.pc = "listing"
    /\ IF resp # "ok" THEN CliFails(cli, resp)
       ELSE IF cli.provider = "github"
       THEN CliListingArrived(cli,
               CliGithubEntries(RemoteContents(Sc.tree, cli.pending), cli.config.branch))
       ELSE LET items == RemotePage(Sc.tree, cli.pending, cli.page)
                all   == cli.allItems \o items
            IN  IF Len(items) < PER_PAGE
                THEN CliListingArrived(cli, CliGitlabEntries(all))
                ELSE cli' = [cli EXCEPT !.page = cli.page + 1, !.allItems = all,
                                !.refs = cli.refs \cup {cli.config.branch}]
    /\ UNCHANGED <<scenario, webVars, call>>

\* the content request awaited is answered; the file is written
CliFileSettle(resp) ==
    /\ cli.pc = "downloading"
    /\ IF resp # "ok" THEN CliFails(cli, resp)
       ELSE LET f == cli.files[cli.current]
                c == [cli EXCEPT !.written = cli.written \cup
                        {[dest |-> f.relativePath,
                          content |-> ServerBytes(Sc.tree, f.file.path)]}]
            IN  IF cli.current < Len(cli.files)
                THEN CliNextFile(c)
                ELSE cli' = [c EXCEPT !.pc = "done"]
    /\ UNCHANGED <<scenario, webVars, call>>


----------------------------------------------------------------------------
(* Calls of the library functions *)

\* no function has been applied
NoCall == [input |-> [kind |-> "none"], fn |-> "", result |-> <<>>]

----------------------------------------------------------------------------
(* The web specification *)

WebScenarios ==
    {"github nested", "gitlab nested", "bitbucket nested", "github flat", "github over",
     "gitlab over", "gitlab empty", "github single", "github links"}

InitWeb ==
    /\ runs = [r \in RunIds |-> IdleRun]
    /\ submits = 0
    /\ isLoading = FALSE
    /\ progress = NoProgress
    /\ error = NoError
    /\ abortRef = 0
    /\ savedTokens = NoTokens
    /\ lastEnded = NoneEnded

Init ==
    /\ scenario \in WebScenarios
    /\ InitWeb
    /\ cli = IdleCli
    /\ call = NoCall

Next ==
    \/ Submit
    \/ Retry
    \/ Cancel
    \/ \E r \in RunIds, resp \in ListResponses : ListSettle(r, resp)
    \/ \E r \in RunIds : \E k \in runs[r].inflight, resp \in FileResponses :
          DownloadSettle(r, k, resp)
    \/ \E r \in RunIds : GenerateDone(r)

Spec == Init /\ [][Next]_vars


----------------------------------------------------------------------------
(* The web specification over a directory larger than a page of listings:  *)
(* the form is submitted once.                                              *)

WideScenarios == {"github wide", "gitlab wide", "bitbucket wide"}

InitWide ==
    /\ scenario \in WideScenarios
    /\ InitWeb
    /\ cli = IdleCli
    /\ call = NoCall

SubmitOnce == submits = 0 /\ Submit

NextWide ==
    \/ SubmitOnce
    \/ Cancel
    \/ \E r \in RunIds, resp \in ListResponses : ListSettle(r, resp)
    \/ \E r \in RunIds : \E k \in runs[r].inflight, resp \in FileResponses :
          DownloadSettle(r, k, resp)
    \/ \E r \in RunIds : GenerateDone(r)

SpecWide == InitWide /\ [][NextWide]_vars

----------------------------------------------------------------------------
(* The CLI specification *)

CliScenarios ==
    {"github nested", "gitlab nested", "github links", "gitlab empty", "gitlab wide",
     "bitbucket nested", "github repo"}

\* --branch: not given, given empty, given with a ref
BranchOptions == {NoBranch, <<>>, <<"dev">>}

InitCli ==
    /\ scenario \in CliScenarios
    /\ InitWeb
    /\ cli = IdleCli
    /\ call = NoCall

NextCli ==
    \/ \E option \in BranchOptions : CliStart(option)
    \/ \E resp \in ListResponses : CliListSettle(resp)
    \/ \E resp \in FileResponses : CliFileSettle(resp)

SpecCli == InitCli /\ [][NextCli]_vars


----------------------------------------------------------------------------
(* The entry points called once, with and without the observer: the web    *)
(* downloadDirectory as the form calls it, or the CLI downloadDirectory.   *)

InitEntry ==
    /\ scenario \in {"github nested", "gitlab nested", "bitbucket nested", "github flat",
                      "gitlab empty"}
    /\ InitWeb
    /\ cli = IdleCli
    /\ call = NoCall

NextEntry ==
    \/ cli.pc = "idle" /\ \E observer \in BOOLEAN : Invoke(observer)
    \/ Cancel
    \/ \E r \in RunIds, resp \in ListResponses : ListSettle(r, resp)
    \/ \E r \in RunIds : \E k \in runs[r].inflight, resp \in FileResponses :
          DownloadSettle(r, k, resp)
    \/ \E r \in RunIds : GenerateDone(r)
    \/ submits = 0 /\ \E observer \in BOOLEAN : CliInvoke(observer)
    \/ \E resp \in ListResponses : CliListSettle(resp)
    \/ \E resp \in FileResponses : CliFileSettle(resp)

SpecEntry == InitEntry /\ [][NextEntry]_vars

----------------------------------------------------------------------------
(* The library functions applied to inputs: the URL functions of the web   *)
(* adapters and the error factories.                                        *)

\* the paths of n segments: a segment is a name (one for each position),
\* one of the markers, or empty (two slashes in a row, or a slash at the end)
SegmentsOf(n) ==
    LET Names == <<"n1", "n2", "n3", "n4", "n5", "n6", "n7", "n8">>
        SegmentChoices == {<<"name">>, <<"tree">>, <<"blob">>, <<"src">>, <<"-">>, <<>>}
    IN  {[i \in 1..n |-> IF c[i] = <<"name">> THEN <<Names[i]>> ELSE c[i]] :
            c \in [1..n -> SegmentChoices]}

\* the URL strings given: every host (the three sites and another one) with
\* every path of up to MaxSegments segments, and a string that is not a URL
UrlInputs ==
    {[kind |-> "url", url |-> MkUrl(h, segs), segments |-> segs] :
        h \in {"github.com", "gitlab.com", "bitbucket.org", "example.com"}, segs \in UNION {SegmentsOf(n) : n \in 0..MaxSegments}}
    \cup {[kind |-> "url", url |-> NotAUrl, segments |-> <<>>]}

\* the texts given to the error factories: provider names, file names, messages
TextInputs ==
    {[kind |-> "text", text |-> t] : t \in {<<"GitHub">>, <<"Bitbucket">>, <<"big.bin">>,
                                             <<"GitHub API error: ", "500">>}}

\* the paths of up to n characters: two letters and the separator
PathsUpTo(n) == UNION {[1..k -> {"s", "x", "/"}] : k \in 0..n}

\* the pairs of a root path and a file path given to the relativizers
PathInputs ==
    {[kind |-> "paths", root |-> r, path |-> f] :
        r \in PathsUpTo(MaxRootLen), f \in PathsUpTo(MaxPathLen)}

ErrorCodes ==
    {"RATE_LIMITED", "NOT_FOUND", "AUTH_REQUIRED", "INVALID_TOKEN", "NETWORK_ERROR",
     "EMPTY_DIRECTORY", "FILE_TOO_LARGE", "CORS_BLOCKED", "INVALID_URL", "PROVIDER_ERROR"}

\* the factory of each code, applied to a text where it takes one
Factory(code, text) ==
    CASE code = "RATE_LIMITED"    -> createRateLimitError(text)
      [] code = "NOT_FOUND"       -> createNotFoundError
      [] code = "AUTH_REQUIRED"   -> createAuthRequiredError
      [] code = "INVALID_TOKEN"   -> createInvalidTokenError
      [] code = "NETWORK_ERROR"   -> createNetworkError
      [] code = "EMPTY_DIRECTORY" -> createEmptyDirectoryError
      [] code = "FILE_TOO_LARGE"  -> createFileTooLargeError(text)
      [] code = "CORS_BLOCKED"    -> createCorsError
      [] code = "INVALID_URL"     -> createInvalidUrlError
      [] code = "PROVIDER_ERROR"  -> createProviderError(text)

\* fn is applied to the input and gives result
Returns(fn, result) ==
    /\ call' = [call EXCEPT !.fn = fn, !.result = result]
    /\ UNCHANGED <<scenario, webVars, cli>>

CallGithubParseUrl ==
    /\ call.input.kind = "url"
    /\ Returns("github.parseUrl", GithubParseUrl(call.input.url))

CallGitlabParseUrl ==
    /\ call.input.kind = "url"
    /\ Returns("gitlab.parseUrl", GitlabParseUrl(call.input.url))

CallBitbucketParseUrl ==
    /\ call.input.kind = "url"
    /\ Returns("bitbucket.parseUrl", BitbucketParseUrl(call.input.url))

CallDetectProvider ==
    /\ call.input.kind = "url"
    /\ Returns("detectProvider", detectProvider(call.input.url))

CallFactory(code) ==
    /\ call.input.kind = "text"
    /\ Returns(code, Factory(code, call.input.text))

\* new DownloadError(message, code, suggestion) with no retryable argument
CallConstructor(code) ==
    /\ call.input.kind = "text"
    /\ Returns("new DownloadError",
               DownloadErrorDefault(call.input.text, code, <<"Try again">>))

\* the relativePath expression of the web collectFiles
CallRelativePath ==
    /\ call.input.kind = "paths"
    /\ Returns("relativePath", RelativePath(call.input.root, call.input.path))

\* the relativePath expression of the CLI collectFiles
CallCliRelativePath ==
    /\ call.input.kind = "paths"
    /\ Returns("cli.relativePath", CliRelativePath(call.input.root, call.input.path))

InitPure ==
    /\ scenario = "github nested"
    /\ InitWeb
    /\ cli = IdleCli
    /\ call \in {[NoCall EXCEPT !.input = i] : i \in UrlInputs \cup TextInputs \cup PathInputs}

NextPure ==
    \/ CallGithubParseUrl
    \/ CallGitlabParseUrl
    \/ CallBitbucketParseUrl
    \/ CallDetectProvider
    \/ \E code \in ErrorCodes : CallFactory(code)
    \/ \E code \in ErrorCodes : CallConstructor(code)
    \/ CallRelativePath
    \/ CallCliRelativePath

SpecPure == InitPure /\ [][NextPure]_vars

----------------------------------------------------------------------------
(* Properties *)

\* C1: when no listing call fails, traversal yields exactly the files
\* reachable under the root path: each of them once and nothing else (web
\* collectFilesRecursively at the end of the enumeration, CLI collectFiles).
C1_TraversalYieldsEveryFileOnce ==
    LET webPaths(files) == {files[k].path : k \in 1..Len(files)}
        cliPaths == {cli.files[k].file.path : k \in 1..Len(cli.files)}
    IN  /\ \A r \in RunIds :
              runs[r].pc \in {"downloading", "generating"} =>
                 /\ webPaths(runs[r].files) = FilesUnder(Sc.tree)
                 /\ Cardinality(webPaths(runs[r].files)) = Len(runs[r].files)
        /\ cli.pc \in {"downloading", "done"} =>
              /\ cliPaths = FilesUnder(Sc.tree)
              /\ Cardinality(cliPaths) = Len(cli.files)

\* C2: the archive of a successful web run holds exactly one entry per
\* discovered file, keyed by the file's relative path, with the bytes the
\* server sent for that file.
C2_ArchiveIsTheDiscoveredFiles ==
    LET Exact(files, zip) ==
            /\ Cardinality(zip) = Len(files)
            /\ \A k \in 1..Len(files) :
                  [relativePath |-> RelativePath(Sc.tree.root, files[k].path),
                   content |-> ServerBytes(Sc.tree, files[k].path)] \in zip
    IN  /\ lastEnded.outcome = "success" => Exact(lastEnded.files, lastEnded.zip)
        /\ \A r \in RunIds : runs[r].pc = "generating" => Exact(runs[r].files, runs[r].zip)

\* a run succeeded over a tree in which two files in different directories
\* have the same name
C2_Witness ==
    /\ lastEnded.outcome = "success"
    /\ \E i, j \in 1..Len(lastEnded.files) :
          i # j /\ lastEnded.files[i].name = lastEnded.files[j].name
    /\ Cardinality(lastEnded.zip) = Len(lastEnded.files)

\* C3: at every instant of a web run at most CONCURRENT_DOWNLOADS
\* provider.downloadFile calls have been started and have not settled.
C3_AtMostKOutstanding ==
    /\ \A r \in RunIds : Cardinality(runs[r].inflight) <= CONCURRENT_DOWNLOADS
    /\ lastEnded.phase = "downloading" => lastEnded.unsettled <= CONCURRENT_DOWNLOADS

\* a full batch is outstanding while more files wait
C3_Witness ==
    \E r \in RunIds :
        /\ Cardinality(runs[r].inflight) = CONCURRENT_DOWNLOADS
        /\ Len(runs[r].files) > CONCURRENT_DOWNLOADS

C5_NoNewRequestAfterAbort ==
    [][\A r \in RunIds :
          /\ (runs[r].aborted /\ runs'[r].pc # "ended") =>
                runs'[r].listed = runs[r].listed /\ runs'[r].started = runs[r].started
          /\ (~runs[r].aborted /\ runs[r].pc # "idle" /\ runs'[r].aborted) =>
                runs'[r].listed = runs[r].listed /\ runs'[r].started = runs[r].started
          /\ (lastEnded'.run = r /\ lastEnded'.cause = "abort" /\ runs[r].pc # "ended") =>
                lastEnded'.listed = runs[r].listed /\ lastEnded'.started = runs[r].started
      ]_vars

\* a run was cancelled in the batch loop with files whose download had not
\* been started, and one cancelled during the enumeration left directories unlisted
C5_Witness ==
    /\ lastEnded.outcome = "cancelled"
    /\ \/ lastEnded.phase = "downloading" /\ Cardinality(lastEnded.started) < Len(lastEnded.files)
       \/ lastEnded.phase = "listing" /\ DirsUnder(Sc.tree) \ lastEnded.listed # {}

\* C6: a traversal that completes with zero files makes the run fail with
\* the EmptyDirectory error and produce nothing, and the error is raised only
\* when every directory has been listed (web downloadDirectory and CLI
\* downloadDirectory).
C6_EmptyDirectoryFails ==
    /\ (lastEnded.outcome # "none" /\ lastEnded.cause = "" /\ Len(lastEnded.files) = 0) =>
          /\ lastEnded.thrown = createEmptyDirectoryError
          /\ ~lastEnded.saved /\ lastEnded.zip = {}
    /\ lastEnded.thrown.code = "EMPTY_DIRECTORY" =>
          /\ DirsUnder(Sc.tree) \subseteq lastEnded.listed
          /\ Len(lastEnded.files) = 0
    /\ (cli.pc \in {"done", "failed"} /\ cli.message = "" /\ Len(cli.files) = 0) =>
          /\ cli.pc = "failed"
          /\ cli.written = {}

\* C7: a discovered file larger than the cap makes the run fail with the
\* FileTooLarge error naming the file; no content request is sent for the file
\* and no archive is produced, whatever the provider.
C7_FileTooLargeFails ==
    LET Over(files) == {k \in 1..Len(files) : ItemAt(Sc.tree, files[k].path).size > MAX_FILE_SIZE}
    IN  /\ \A r \in RunIds : runs[r].fetched \cap Over(runs[r].files) = {}
        /\ \A r \in RunIds : runs[r].pc = "generating" => Over(runs[r].files) = {}
        /\ lastEnded.fetched \cap Over(lastEnded.files) = {}
        /\ lastEnded.saved => Over(lastEnded.files) = {}
        /\ lastEnded.thrown.code = "FILE_TOO_LARGE" =>
              \E k \in Over(lastEnded.files) : lastEnded.thrown.message = <<"File too large: ">> \o lastEnded.files[k].name

\* C8: a failed listing or content request makes the run fail with the error
\* of that request and nothing is saved; a run that reports success has
\* listed every directory under the root and fetched every discovered file.
C8_FailFastAndComplete ==
    /\ lastEnded.failed =>
          /\ lastEnded.outcome = "error"
          /\ lastEnded.thrown.name = "DownloadError"
          /\ lastEnded.cause = "404" /\ lastEnded.phase = "listing" =>
                lastEnded.thrown = createNotFoundError
          /\ ~lastEnded.saved /\ lastEnded.zip = {}
    /\ \A r \in RunIds : ~runs[r].failed
    /\ lastEnded.outcome = "success" =>
          /\ DirsUnder(Sc.tree) \subseteq lastEnded.listed
          /\ lastEnded.fetched = 1..Len(lastEnded.files)

\* C9: a cancellation is not reported as a failure: the aborted request
\* throws AbortError (not NetworkError), the form sets no error and shows the
\* "Download cancelled" toast only.
C9_CancelIsNotAnError ==
    /\ lastEnded.cause = "abort" =>
          /\ lastEnded.thrown = AbortError
          /\ lastEnded.outcome = "cancelled"
          /\ lastEnded.toast = "info: Download cancelled"
          /\ lastEnded.errorSet = NoError
          /\ error = NoError
    /\ lastEnded.aborted => lastEnded.toast # "error" /\ lastEnded.errorSet = NoError

\* the retry of a failed run was cancelled while its listing was awaited
C9_Witness ==
    /\ lastEnded.cause = "abort"
    /\ lastEnded.phase = "listing"
    /\ lastEnded.run > 1
    /\ lastEnded.toast = "info: Download cancelled"

\* C10: with --branch given every listing and content request of the CLI
\* names the given ref and never the ref of the URL; without it every
\* request names the ref of the URL.
C10_BranchOverride ==
    LET given == cli.branchOption # NoBranch /\ cli.branchOption # <<>>
    IN  /\ cli.refs \subseteq {IF given THEN cli.branchOption ELSE UrlRef}
        /\ cli.pc \in {"listing", "downloading", "done"} => cli.refs # {}

\* the CLI ran to its end with --branch dev over nested directories
C10_Witness ==
    /\ cli.pc = "done"
    /\ cli.branchOption = <<"dev">>
    /\ cli.refs = {<<"dev">>}
    /\ Cardinality(cli.written) > 1
    /\ Cardinality(cli.listed) > 1


\* C11: parseUrl of every adapter either returns a Location or fails with
\* the InvalidUrl kind of error, and it fails with InvalidUrl whenever the
\* host is not the adapter's or the path has fewer than two segments.
C11_ParseUrlTotalAndTyped ==
    LET u    == call.input.url
        host == CASE call.fn = "github.parseUrl"    -> "github.com"
                  [] call.fn = "gitlab.parseUrl"    -> "gitlab.com"
                  [] call.fn = "bitbucket.parseUrl" -> "bitbucket.org"
        ne   == SelectSeq(call.input.segments, Truthy)
    IN  call.fn \in {"github.parseUrl", "gitlab.parseUrl", "bitbucket.parseUrl"} =>
           /\ call.result.threw \in {"", "INVALID_URL"}
           /\ (~u.valid \/ u.host # host \/ Len(ne) < 2) => call.result.threw = "INVALID_URL"

\* C12: every error factory returns a DownloadError of its code, retryable
\* exactly for RATE_LIMITED, AUTH_REQUIRED, INVALID_TOKEN, NETWORK_ERROR,
\* CORS_BLOCKED and PROVIDER_ERROR, with a message and a suggestion; a
\* DownloadError constructed without the retryable argument is not retryable.
C12_ErrorTaxonomy ==
    LET retryable == {"RATE_LIMITED", "AUTH_REQUIRED", "INVALID_TOKEN", "NETWORK_ERROR",
                      "CORS_BLOCKED", "PROVIDER_ERROR"}
        final     == {"NOT_FOUND", "EMPTY_DIRECTORY", "FILE_TOO_LARGE", "INVALID_URL"}
    IN  /\ call.fn \in retryable \cup final =>
              /\ call.result.name = "DownloadError"
              /\ call.result.code = call.fn
              /\ call.result.retryable = (call.fn \in retryable)
              /\ call.result.message # <<>>
              /\ call.result.suggestion # <<>>
        /\ call.fn = "new DownloadError" =>
              /\ call.result.name = "DownloadError"
              /\ ~call.result.retryable
              /\ call.result.code \in retryable \cup final
              /\ call.result.message = call.input.text
              /\ call.result.suggestion # <<>>

\* the factory of a retryable kind was called, and the constructor was called
\* with a retryable code and no retryable argument
C12_Witness ==
    \/ call.fn = "AUTH_REQUIRED" /\ call.result.retryable
    \/ call.fn = "new DownloadError" /\ call.result.code = "NETWORK_ERROR"

\* C13: detectProvider returns the first provider of the order github,
\* gitlab, bitbucket that can handle the URL, which is the one whose host is
\* the URL's hostname; it returns null for other hosts and for strings that
\* are not URLs; at most one provider can handle a URL.
C13_DetectProvider ==
    LET u       == call.input.url
        handles == {i \in 1..Len(providers) : CanHandle(providers[i], u)}
    IN  call.fn = "detectProvider" =>
           /\ providers = <<"github", "gitlab", "bitbucket">>
           /\ call.result = (IF ~u.valid THEN ""
                             ELSE IF u.host = "github.com" THEN "github"
                             ELSE IF u.host = "gitlab.com" THEN "gitlab"
                             ELSE IF u.host = "bitbucket.org" THEN "bitbucket"
                             ELSE "")
           /\ Cardinality(handles) <= 1
           /\ call.result # "" =>
                 \E i \in handles : providers[i] = call.result /\ \A j \in handles : i <= j

\* the last provider of the order was detected
C13_Witness ==
    /\ call.fn = "detectProvider"
    /\ call.input.url.host = "bitbucket.org"
    /\ call.result = "bitbucket"

\* C14: the GitHub and Bitbucket parseUrl give {owner, repo, "main", ""} for
\* a path of only /owner/repo, and for /owner/repo/<marker>/<ref>/<segments>
\* (tree or blob for GitHub, src for Bitbucket) the ref as branch and the
\* segments joined by "/" as path, with no slash at either end.
C14_ParseOwnerRepoRefPath ==
    LET ne      == SelectSeq(call.input.segments, Truthy)
        markers == IF call.fn = "github.parseUrl" THEN {<<"tree">>, <<"blob">>} ELSE {<<"src">>}
        r       == call.result
    IN  (call.fn \in {"github.parseUrl", "bitbucket.parseUrl"} /\ call.input.url.valid) =>
           /\ Len(ne) = 2 => r = Parsed(ne[1], ne[2], <<"main">>, <<>>)
           /\ (Len(ne) >= 4 /\ ne[3] \in markers) =>
                 /\ r = Parsed(ne[1], ne[2], ne[4], Join(SubSeq(ne, 5, Len(ne)), "/"))
                 /\ r.path # <<>> => r.path[1] # "/" /\ r.path[Len(r.path)] # "/"

\* a URL with a marker, a ref and a path was parsed
C14_Witness ==
    /\ call.fn = "bitbucket.parseUrl"
    /\ Len(call.input.segments) = 5
    /\ call.input.segments[3] = <<"src">>
    /\ call.input.segments[5] = <<"n5">>
    /\ call.result.branch = <<"n4">>
    /\ call.result.path = <<"n5">>

\* C15: the GitLab parseUrl takes the project as the segment before the "-"
\* marker, or the last segment without a marker, and the owner as the
\* preceding segments joined by "/"; branch is the segment after tree or blob
\* (default "main") and path the rest; owner and repo are never empty in a
\* Location it returns.
C15_GitlabParseUrl ==
    LET ne   == SelectSeq(call.input.segments, Truthy)
        dash == {k \in 1..Len(ne) : ne[k] = <<"-">>}
        k    == CHOOSE i \in dash : \A j \in dash : i <= j
        r    == call.result
        tree == k + 1 <= Len(ne) /\ ne[k + 1] \in {<<"tree">>, <<"blob">>}
    IN  (call.fn = "gitlab.parseUrl" /\ r.threw = "") =>
           /\ r.owner # <<>> /\ r.repo # <<>> /\ r.repo # Undefined
           /\ dash = {} =>
                 r = Parsed(Join(SubSeq(ne, 1, Len(ne) - 1), "/"), ne[Len(ne)], <<"main">>, <<>>)
           /\ dash # {} =>
                 /\ r.repo = ne[k - 1]
                 /\ r.owner = Join(SubSeq(ne, 1, k - 2), "/")
                 /\ r.branch = IF tree /\ k + 2 <= Len(ne) THEN ne[k + 2] ELSE <<"main">>
                 /\ r.path = IF tree THEN Join(SubSeq(ne, k + 3, Len(ne)), "/") ELSE <<>>


\* C16: an entry that is neither a file nor a directory (a symlink, a
\* submodule) is skipped by the traversal: it never becomes a download task
\* or an archive entry (web and CLI).
C16_OtherKindsAreSkipped ==
    LET IsFileAt(path) == ItemAt(Sc.tree, path).kind = "file"
    IN  /\ \A r \in RunIds : \A k \in 1..Len(runs[r].files) : IsFileAt(runs[r].files[k].path)
        /\ \A k \in 1..Len(lastEnded.files) : IsFileAt(lastEnded.files[k].path)
        /\ \A k \in 1..Len(cli.files) : IsFileAt(cli.files[k].file.path)

\* C17: the relativePath of every download task is non-empty, has no leading
\* slash and is that of no other task of the run, also when the root path
\* designates a single file (web results, CLI files).
C17_RelativePathsWellFormed ==
    LET Good(paths) ==
            /\ \A i \in 1..Len(paths) : paths[i] # <<>> /\ paths[i][1] # "/"
            /\ \A i, j \in 1..Len(paths) : paths[i] = paths[j] => i = j
    IN  /\ \A r \in RunIds :
              Good([j \in 1..Len(runs[r].results) |-> runs[r].results[j].relativePath])
        /\ Good([j \in 1..Len(cli.files) |-> cli.files[j].relativePath])

\* C18: the progress events of a run come in the order fetching, downloading,
\* zipping: after an event of a later phase no event of an earlier phase is
\* emitted, and a run that failed while listing has emitted no downloading
\* or zipping event, a run that failed while downloading no zipping event.
C18_EventsInPhaseOrder ==
    LET PhaseRank(phase) ==
            CASE phase = "fetching" -> 1 [] phase = "downloading" -> 2
              [] phase = "zipping" -> 3
        InPhaseOrder(emitted) ==
            \A i, j \in 1..Len(emitted) :
                i < j => PhaseRank(emitted[i]) < PhaseRank(emitted[j])
    IN  /\ \A r \in RunIds : InPhaseOrder(runs[r].emitted)
        /\ InPhaseOrder(lastEnded.emitted)
        /\ lastEnded.outcome \in {"error", "cancelled"} =>
              /\ lastEnded.phase = "listing" => lastEnded.emitted = <<"fetching">>
              /\ lastEnded.phase = "downloading" =>
                    lastEnded.emitted = <<"fetching", "downloading">>
        /\ \A r \in RunIds :
              /\ runs[r].pc = "listing" => runs[r].emitted = <<"fetching">>
              /\ runs[r].pc = "downloading" =>
                    runs[r].emitted = <<"fetching", "downloading">>

\* a run went through the three phases and succeeded
C18_Witness ==
    /\ lastEnded.outcome = "success"
    /\ lastEnded.emitted = <<"fetching", "downloading", "zipping">>

\* C19: every downloading event carries the final number of discovered files
\* as its total; no downloading event is emitted and no download is started
\* while a listing is awaited or a directory is still to be read (web
\* collectFiles and CLI downloadDirectory).
C19_TotalIsFinal ==
    /\ \A r \in RunIds :
          /\ runs[r].totals \subseteq {Len(runs[r].files)}
          /\ (runs[r].totals # {} \/ runs[r].started # {}) =>
                runs[r].stack = <<>> /\ runs[r].pc # "listing"
    /\ lastEnded.totals \subseteq {Len(lastEnded.files)}
    /\ lastEnded.phase = "listing" => lastEnded.totals = {} /\ lastEnded.started = {}
    /\ cli.totals \subseteq {Len(cli.files)}
    /\ (cli.totals # {} \/ cli.current > 0) => cli.stack = <<>> /\ cli.pc # "listing"

\* a web run is in its second batch and its events carried the one total
C19_Witness ==
    \E r \in RunIds :
        /\ runs[r].pc = "downloading"
        /\ runs[r].batch > 0
        /\ runs[r].totals = {Len(runs[r].files)}

C21_RelativizerRule ==
    call.fn \in {"relativePath", "cli.relativePath"} =>
        LET root == call.input.root
            path == call.input.path
        IN  call.result =
              IF path = root THEN LastSegmentOr(path)
              ELSE IF StartsWith(path, root \o <<"/">>) THEN Slice(path, Len(root) + 1)
              ELSE StripLeadingSlash(path)

\* C22: with an empty root path the relativizers of the web and of the CLI
\* return a relative path (one without a leading slash) unchanged, and
\* relativizing the result again gives the result.
C22_RelativizerIdempotent ==
    /\ call.fn \in {"relativePath", "cli.relativePath"}
    /\ call.input.root = <<>>
    /\ ~StartsWith(call.input.path, <<"/">>)
    => /\ call.result = call.input.path
       /\ RelativePath(<<>>, call.result) = call.result
       /\ CliRelativePath(<<>>, call.result) = call.result

\* the web relativizer was given the relative path s/x and the empty root
C22_Witness ==
    /\ call.fn = "relativePath"
    /\ call.input.root = <<>>
    /\ call.input.path = <<"s", "/", "x">>
    /\ call.result = <<"s", "/", "x">>

\* C23: during the traversal one fetching event is emitted per entry of the
\* listings (after the event that opens the run), the k-th of them carrying
\* the count k of the entries discovered so far as current and as total;
\* the count never decreases.
C23_OneEventPerEntry ==
    \A r \in RunIds :
        LET log == runs[r].fetchLog
        IN  /\ \A k \in 1..Len(log) :
                  /\ log[k].phase = "fetching"
                  /\ log[k].current = k - 1
                  /\ log[k].total = log[k].current
            /\ \A i, j \in 1..Len(log) : i <= j => log[i].current <= log[j].current

\* C24: within one run provider.downloadFile is called at most once for a
\* file and provider.fetchContents at most once for a directory, whatever
\* the answers were; a run that ended after a failure made no call twice (web
\* and CLI).
C24_NoRetry ==
    LET NoDuplicates(calls) == \A i, j \in 1..Len(calls) : calls[i] = calls[j] => i = j
    IN  /\ \A r \in RunIds :
              NoDuplicates(runs[r].listCalls) /\ NoDuplicates(runs[r].fileCalls)
        /\ NoDuplicates(lastEnded.listCalls) /\ NoDuplicates(lastEnded.fileCalls)
        /\ NoDuplicates(cli.listCalls) /\ NoDuplicates(cli.fileCalls)
        /\ \A r \in RunIds : runs[r].failed => runs[r].pc = "ended"

\* a web run ended on a failed content request after calling for several files
C24_Witness ==
    /\ lastEnded.outcome = "error"
    /\ lastEnded.failed
    /\ lastEnded.phase = "downloading"
    /\ Len(lastEnded.fileCalls) > 1

\* C25: whatever the order in which the downloads of a run complete, the
\* list handed to createAndDownloadZip holds the results of the discovered
\* files in discovery order, and the entries of the archive are those of
\* that list: neither depends on the order of completion.
C25_ResultIsOrderIndependent ==
    LET ResultsInDiscoveryOrder(run) ==
            [k \in 1..Len(run.files) |->
                [relativePath |-> RelativePath(run.config.path, run.files[k].path),
                 content |-> ServerBytes(Sc.tree, run.files[k].path)]]
    IN  \A r \in RunIds :
            runs[r].pc = "generating" =>
                /\ runs[r].results = ResultsInDiscoveryOrder(runs[r])
                /\ runs[r].zip = ZipOf(ResultsInDiscoveryOrder(runs[r]))

\* the archive of a run is being generated after a content of it had
\* arrived before that of an earlier file
C25_Witness ==
    \E r \in RunIds :
        /\ runs[r].pc = "generating"
        /\ runs[r].outOfOrder
        /\ Len(runs[r].files) > 1

\* C26: the counter completed is the number of downloads of the run that
\* have finished, under every order of completion; the downloading events
\* report counts that never decrease and never exceed their total; when
\* collectFiles has returned the counter is the number of files and the
\* result list has one element per file.
C26_CounterAndResultsAreExact ==
    \A r \in RunIds :
        LET run == runs[r]
            log == run.downloadLog
        IN  /\ run.pc = "downloading" =>
                  /\ run.completed = run.batch + Cardinality(run.got)
                  /\ Len(run.results) = run.batch
            /\ \A i, j \in 1..Len(log) : i <= j => log[i].current <= log[j].current
            /\ \A i \in 1..Len(log) :
                  log[i].phase = "downloading" /\ log[i].current <= log[i].total
            /\ run.pc = "generating" =>
                  /\ run.completed = Len(run.files)
                  /\ Len(run.results) = Len(run.files)
                  /\ Len(log) = Len(run.files)

\* collectFiles has returned after two batches
C26_Witness ==
    \E r \in RunIds :
        /\ runs[r].pc = "generating"
        /\ runs[r].completed > CONCURRENT_DOWNLOADS
        /\ runs[r].downloadLog[Len(runs[r].downloadLog)].current = CONCURRENT_DOWNLOADS

\* C27: provider.downloadFile is called for the files in discovery order in
\* batches of at most CONCURRENT_DOWNLOADS; while a batch is downloading the
\* files called for are those up to the end of that batch, every file of
\* the batches before has its result and only files of that batch are
\* outstanding; a run that ended on a failed download called for no file
\* beyond the batch of that download.
C27_BatchesWithBarrier ==
    LET FirstFiles(n) == [j \in 1..n |-> j]
    IN
    /\ \A r \in RunIds :
          LET run == runs[r]
          IN  run.pc = "downloading" =>
                /\ run.fileCalls =
                      FirstFiles(Min(run.batch + CONCURRENT_DOWNLOADS, Len(run.files)))
                /\ Len(run.results) = run.batch
                /\ run.inflight \subseteq
                      (run.batch + 1)..(run.batch + CONCURRENT_DOWNLOADS)
                /\ run.batch % CONCURRENT_DOWNLOADS = 0
    /\ lastEnded.phase = "downloading" =>
          lastEnded.fileCalls =
             FirstFiles(Min(lastEnded.batch + CONCURRENT_DOWNLOADS, Len(lastEnded.files)))
    /\ lastEnded.phase = "listing" => lastEnded.fileCalls = <<>>

\* a run ended on a failed download of its first batch: the file of the
\* second batch was never called for
C27_Witness ==
    /\ lastEnded.outcome = "error"
    /\ lastEnded.failed
    /\ lastEnded.phase = "downloading"
    /\ lastEnded.batch = 0
    /\ Len(lastEnded.files) > CONCURRENT_DOWNLOADS
    /\ Len(lastEnded.fileCalls) = CONCURRENT_DOWNLOADS

\* C28: a run in which Cancel was pressed has no further effect the user
\* sees: it saves no archive, shows no success toast and saves no token,
\* and once the form is not loading progress stays null.
C28_CancelledRunHasNoEffect ==
    /\ lastEnded.aborted =>
          /\ ~lastEnded.saved
          /\ lastEnded.toast # "success: Download started!"
          /\ ~lastEnded.tokenSaved
    /\ ~isLoading => progress = NoProgress

\* C29: at most one run is executing; while a run is executing the form is
\* loading and abortRef holds the controller of that run; so the end of an
\* earlier run never clears the controller, the loading flag or the
\* progress of a later one.
C29_OneRunOwnsTheForm ==
    LET Executing(r) == runs[r].pc \notin {"idle", "ended"}
    IN
    /\ \A r1, r2 \in RunIds : Executing(r1) /\ Executing(r2) => r1 = r2
    /\ isLoading => abortRef # 0 /\ Executing(abortRef)
    /\ \A r \in RunIds :
          Executing(r) /\ ~runs[r].aborted =>
             isLoading /\ abortRef = r /\ progress # NoProgress

\* C30: the step in which a run ends leaves the form idle (not loading,
\* progress null, abortRef null); error is non-null after it only if the run
\* ended with a DownloadError; the tokens are saved only in the step in
\* which a run ends in success whose rememberToken was set and whose token
\* was not empty.
C30_RunEndLeavesFormIdle ==
    [][ /\ lastEnded' # lastEnded =>
             /\ ~isLoading'
             /\ progress' = NoProgress
             /\ abortRef' = 0
             /\ (error' # NoError => lastEnded'.thrown.name = "DownloadError")
        /\ savedTokens' # savedTokens =>
             /\ lastEnded' # lastEnded
             /\ lastEnded'.outcome = "success"
             /\ runs[lastEnded'.run].remember
             /\ Truthy(runs[lastEnded'.run].token) ]_vars

=============================================================================
